---- MODULE Spec2Model ----
(***************************************************************************)
(* State-machine model of the two conf-vst plug-ins:                       *)
(*   - the Tone Engine  (src/synth/src/lib.rs, DevFestSynth)               *)
(*   - the Noise Engine (src/noise_generator/src/lib.rs, DevFestSynth)     *)
(*                                                                         *)
(* f32 quantities are kept as exact scaled integers:                       *)
(*   frequency  in 1/FreqScale Hz      (FreqScale = 100: centi-hertz)      *)
(*   phase      in 1/PhaseOne turns    (PhaseOne  = 1.0)                   *)
(*   envelope   in 1/EnvOne            (EnvOne    = 1.0)                   *)
(*   gain       in 1/100 dB                                                *)
(* sample_rate is in Hz.                                                   *)
(***************************************************************************)
EXTENDS Integers, Sequences, FiniteSets

(***************************************************************************)
(* Bounds of the exploration.                                              *)
(***************************************************************************)
\* number of process() calls explored
MaxBlocks == 2
\* N, the number of samples of every block handed to process()
NumSamples == 2
\* number of note events the host sends over the explored run
MaxEvents == 2
\* longest oscillator period explored, in samples
MaxPeriod == 5

(***************************************************************************)
(* Fixed-point units and program constants.                                *)
(***************************************************************************)
FreqScale == 100
PhaseOne == 200000
EnvOne == 20
\* DevFestSynth::default(): sample_rate: 1.0
DefaultSampleRate == 1
\* DevFestSynth::default() / reset(): midi_note_freq = 1.0
ResetFreq == 100
\* Smoother::new(SmoothingStyle::Linear(5.0)) : envelope, milliseconds
EnvelopeMs == 5
\* gain: -10.0 dB default, Linear(3.0) smoother
DefaultGain == -1000
GainMs == 3
\* frequency: 420.0 Hz default, maximum 20000 Hz, Linear(10.0) smoother
DefaultFrequency == 42000
MaxFrequency == 2000000
FrequencyMs == 10

\* f32 +infinity, the result of a positive frequency / 0.0
Infinity == 2000000000

\* random::<f32>() is uniform in [0, 1): kept in 1/RandOne
RandOne == 4
RandomValues == 0..(RandOne - 1)

\* sample rates the host may configure (any positive rate is legal)
SampleRates == {250, 400}
\* sample rates a host can hand to initialize(): the f32 is stored unchecked
HostSampleRates == SampleRates \cup {0}
\* sample rates for the envelope: 5 ms are 1.25 samples at 250 Hz and 2.5 at 500 Hz
EnvelopeRates == {250, 500}
\* AUDIO_IO_LAYOUTS: stereo or mono output
ChannelCounts == {2, 1}
\* note ids used by the explored events (0 is also the reset value)
Notes == {0, 60, 64}
\* velocities (1.0) and pressures (0.5) used by the explored events
Velocities == {EnvOne}
Pressures == {EnvOne \div 2}
\* targets the host may automate the parameters to
GainTargets == {0}
FrequencyTargets == {MaxFrequency}
\* sample offsets of the events of a block; NumSamples is out of range
Timings == 0..NumSamples
\* phases the oscillator is started from when calculate_sin is run on its own
StartPhases == {0, 1, PhaseOne \div 4, PhaseOne \div 2, PhaseOne - 1}
\* frequencies for a rate: rate / k, k = 1..MaxPeriod, rounded down to a centi-hertz
period_frequencies(rate) == {(FreqScale * rate) \div k : k \in 1..MaxPeriod}

(***************************************************************************)
(* util::midi_note_to_freq: 440 * 2^((note - 69) / 12), in centi-hertz.    *)
(***************************************************************************)
midi_note_to_freq(note) ==
    CASE note = 0   -> 818
      [] note = 60  -> 26163
      [] note = 64  -> 32963
      [] note = 69  -> 44000
      [] note = 127 -> 1254385

(***************************************************************************)
(* nih_plug Smoother<f32>, linear style.                                   *)
(***************************************************************************)
\* f32 division of scaled integers, rounded toward zero
TruncDiv(a, b) == IF a >= 0 THEN a \div b ELSE -((-a) \div b)

\* SmoothingStyle::Linear(ms).num_steps(sample_rate) = round(sample_rate*ms/1000)
num_steps(ms, rate) == (rate * ms + 500) \div 1000

\* Smoother::new: converged at the initial value
SmootherNew(v) == [current |-> v, target |-> v, steps_left |-> 0, step_size |-> 0]

\* Smoother::set_target: re-arm from the current value
set_target(s, ms, rate, target) ==
    LET n == num_steps(ms, rate) IN
    [current |-> s.current, target |-> target, steps_left |-> n,
     step_size |-> IF n > 0 THEN TruncDiv(target - s.current, n) ELSE 0]

\* Smoother::next: the value returned
next_value(s) ==
    IF s.steps_left > 1 THEN s.current + s.step_size ELSE s.target

\* Smoother::next: the state left behind
next_state(s) ==
    IF s.steps_left > 1
    THEN [s EXCEPT !.steps_left = @ - 1, !.current = @ + s.step_size]
    ELSE IF s.steps_left = 1
    THEN [s EXCEPT !.steps_left = 0, !.current = s.target]
    ELSE s

\* Smoother::reset: current = target = v, interpolation discarded
smoother_reset(s, v) == [current |-> v, target |-> v, steps_left |-> 0, step_size |-> 0]

(***************************************************************************)
(* Note events (nih_plug NoteEvent) and the host's event queue.            *)
(*                                                                         *)
(* The queue is opaque to the plug-in: context.next_event() hands out one  *)
(* event at a time, sorted by timing, and process() reads nothing but      *)
(* event.timing() until the event reaches the `match`.  The model          *)
(* therefore reveals the queue lazily: the timing when the event is        *)
(* fetched, the payload (kind, note, value) when it is matched.            *)
(***************************************************************************)
NoEvent == [some |-> FALSE, timing |-> 0]
SomeEvent(t) == [some |-> TRUE, timing |-> t]

\* NoteOn, NoteOff, PolyPressure, and Choke for the kinds process() ignores
Payloads ==
    [kind : {"NoteOn"}, note : Notes, value : Velocities]
    \cup [kind : {"PolyPressure"}, note : Notes, value : Pressures]
    \cup [kind : {"NoteOff", "Choke"}, note : Notes, value : {0}]

NoPayload == [kind |-> "None", note |-> 0, value |-> 0, timing |-> 0, at |-> 0]

\* context.next_event(): None once the queue is empty, otherwise the next
\* event of a queue sorted by timing
next_event_results(n_sent, after) ==
    IF n_sent >= MaxEvents THEN {NoEvent}
    ELSE {NoEvent} \cup {SomeEvent(t) : t \in {u \in Timings : u >= after}}

(***************************************************************************)
(* State.                                                                  *)
(***************************************************************************)
VARIABLES
    \* Tone Engine: struct DevFestSynth
    sample_rate, phase, midi_note_id, midi_note_freq, midi_note_gain,
    \* Tone Engine: struct DevFestSynthParams
    gain, frequency, use_midi,
    \* Tone Engine: host life cycle and the locals of process()
    pc, blocks, sample_id, next_event, sent, gain_db, buffer, status,
    \* Tone Engine: history of the running process() call
    last_applied, rendered, idle_since_reset, ticks,
    \* Noise Engine
    n_sample_rate, n_gain, n_pc, n_blocks, n_sample_id, n_buffer, n_status,
    \* calculate_sin run on its own: its self.phase, the phase it started from,
    \* its frequency argument, its self.sample_rate, and the number of calls
    osc_phase, osc_start, osc_freq, osc_rate, osc_steps

note_vars == <<midi_note_id, midi_note_freq, midi_note_gain>>
param_vars == <<gain, frequency, use_midi>>
local_vars == <<sample_id, next_event, sent, gain_db, buffer, status>>
hist_vars == <<last_applied, rendered, idle_since_reset, ticks>>
tone_vars == <<sample_rate, phase, note_vars, param_vars, pc, blocks, local_vars, hist_vars>>
noise_vars == <<n_sample_rate, n_gain, n_pc, n_blocks, n_sample_id, n_buffer, n_status>>
osc_vars == <<osc_phase, osc_start, osc_freq, osc_rate, osc_steps>>
vars == <<tone_vars, noise_vars, osc_vars>>

NoTicks == [gain |-> 0, osc |-> 0, env |-> 0, freq |-> 0]

\* the two plug-ins after construction
EngineInit ==
    /\ sample_rate = DefaultSampleRate
    /\ phase = 0
    /\ midi_note_id = 0
    /\ midi_note_freq = ResetFreq
    /\ midi_note_gain = SmootherNew(0)
    /\ gain = SmootherNew(DefaultGain)
    /\ frequency = SmootherNew(DefaultFrequency)
    /\ use_midi = TRUE
    /\ pc = "new"
    /\ blocks = 0
    /\ sample_id = 0
    /\ next_event = NoEvent
    /\ sent = 0
    /\ gain_db = 0
    /\ buffer = <<>>
    /\ status = "None"
    /\ last_applied = NoPayload
    /\ rendered = <<>>
    /\ idle_since_reset = FALSE
    /\ ticks = NoTicks
    /\ n_sample_rate = DefaultSampleRate
    /\ n_gain = SmootherNew(DefaultGain)
    /\ n_pc = "new"
    /\ n_blocks = 0
    /\ n_sample_id = 0
    /\ n_buffer = <<>>
    /\ n_status = "None"

Init ==
    /\ EngineInit
    /\ osc_phase = 0
    /\ osc_start = 0
    /\ osc_freq = ResetFreq
    /\ osc_rate = DefaultSampleRate
    /\ osc_steps = 0

(***************************************************************************)
(* Tone Engine: helpers of process().                                      *)
(***************************************************************************)
\* mutant: the loop also takes the events of the next sample
event_due_early(timing, s) == ~(timing > s + 1)

\* mutant: an event past the end of the block is clamped to the last sample
event_due_clamps(timing, s) ==
    ~(timing > s) \/ (timing >= NumSamples /\ s = NumSamples - 1)

\* the `event.timing() > sample_id => break` test of the event loop, negated
event_due(timing, s) == ~(timing > s)

\* mutant: the NoteOff arm without its guard
note_off_matches_any(note, id) == TRUE

\* the match guard of the NoteOff arm
note_off_matches(note, id) == note = id

\* mutant: the PolyPressure arm without its guard
poly_pressure_matches_any(note, id) == TRUE

\* the match guard of the PolyPressure arm
poly_pressure_matches(note, id) == note = id

\* mutant: a NoteOn is dropped while the envelope of a note is open
note_state_after_no_steal(ev, id, freq, env, rate) ==
    CASE ev.kind = "NoteOn" /\ env.target = 0 ->
            [id |-> ev.note, freq |-> midi_note_to_freq(ev.note),
             env |-> set_target(env, EnvelopeMs, rate, ev.value)]
      [] ev.kind = "NoteOff" /\ ev.note = id ->
            [id |-> id, freq |-> freq, env |-> set_target(env, EnvelopeMs, rate, 0)]
      [] ev.kind = "PolyPressure" /\ ev.note = id ->
            [id |-> id, freq |-> freq, env |-> set_target(env, EnvelopeMs, rate, ev.value)]
      [] OTHER -> [id |-> id, freq |-> freq, env |-> env]

\* mutant: a matching NoteOff closes the envelope at once
note_state_after_jump(ev, id, freq, env, rate) ==
    CASE ev.kind = "NoteOn" ->
            [id |-> ev.note, freq |-> midi_note_to_freq(ev.note),
             env |-> set_target(env, EnvelopeMs, rate, ev.value)]
      [] ev.kind = "NoteOff" /\ note_off_matches(ev.note, id) ->
            [id |-> id, freq |-> freq, env |-> smoother_reset(env, 0)]
      [] ev.kind = "PolyPressure" /\ poly_pressure_matches(ev.note, id) ->
            [id |-> id, freq |-> freq, env |-> set_target(env, EnvelopeMs, rate, ev.value)]
      [] OTHER -> [id |-> id, freq |-> freq, env |-> env]

\* the `match event` of the event loop: the note state after one event
note_state_after(ev, id, freq, env, rate) ==
    CASE ev.kind = "NoteOn" ->
            [id |-> ev.note, freq |-> midi_note_to_freq(ev.note),
             env |-> set_target(env, EnvelopeMs, rate, ev.value)]
      [] ev.kind = "NoteOff" /\ note_off_matches(ev.note, id) ->
            [id |-> id, freq |-> freq, env |-> set_target(env, EnvelopeMs, rate, 0)]
      [] ev.kind = "PolyPressure" /\ poly_pressure_matches(ev.note, id) ->
            [id |-> id, freq |-> freq, env |-> set_target(env, EnvelopeMs, rate, ev.value)]
      [] OTHER -> [id |-> id, freq |-> freq, env |-> env]

\* calculate_sin: phase_delta = frequency / self.sample_rate, an f32 division:
\* every frequency of the engine is positive, so a zero rate gives +infinity
phase_delta(freq, rate) ==
    IF rate = 0 THEN Infinity ELSE freq * (PhaseOne \div (FreqScale * rate))

\* mutant: calculate_sin without the wrap
phase_after_no_wrap(ph, freq, rate) ==
    LET d == phase_delta(freq, rate)
        p == IF ph = Infinity \/ d = Infinity THEN Infinity ELSE ph + d
    IN  p

\* calculate_sin: the phase left behind (inf + x = inf, inf - 1.0 = inf)
phase_after(ph, freq, rate) ==
    LET d == phase_delta(freq, rate)
        p == IF ph = Infinity \/ d = Infinity THEN Infinity ELSE ph + d
    IN  IF p = Infinity THEN Infinity
        ELSE IF p >= PhaseOne THEN p - PhaseOne ELSE p

\* one output sample: sin(sine_phase * TAU) * envelope * db_to_gain_fast(gain_db),
\* kept as the triple of its factors
tone_sample(sine_phase, envelope, g) ==
    [sine_phase |-> sine_phase, envelope |-> envelope, gain_db |-> g]

Unwritten == [writes |-> 0, value |-> tone_sample(0, 0, 0)]

\* the host's buffer: NumSamples sample slots of ch channels each
fresh_buffer(ch) == [s \in 1..NumSamples |-> [c \in 1..ch |-> Unwritten]]

\* mutant: only the first channel is written
write_channels_first_only(buf, s, v) ==
    [buf EXCEPT ![s + 1][1] = [writes |-> buf[s + 1][1].writes + 1, value |-> v]]

\* `for sample in channel_samples { *sample = v }` at sample index s
write_channels(buf, s, v) ==
    [buf EXCEPT ![s + 1] =
        [c \in DOMAIN buf[s + 1] |-> [writes |-> buf[s + 1][c].writes + 1, value |-> v]]]

(***************************************************************************)
(* Tone Engine: life cycle.                                                *)
(***************************************************************************)
\* mutant: initialize() also restarts the oscillator
initialize_restarts_phase(rate) ==
    /\ pc \in {"new", "ready"}
    /\ rate # sample_rate
    /\ sample_rate' = rate
    /\ phase' = 0
    /\ pc' = "ready"
    /\ UNCHANGED <<note_vars, param_vars, blocks, local_vars, hist_vars>>
    /\ UNCHANGED <<noise_vars, osc_vars>>

\* Plugin::initialize: stores the sample rate
initialize(rate) ==
    /\ pc \in {"new", "ready"}
    /\ rate # sample_rate
    /\ sample_rate' = rate
    /\ pc' = "ready"
    /\ UNCHANGED <<phase, note_vars, param_vars, blocks, local_vars, hist_vars>>
    /\ UNCHANGED <<noise_vars, osc_vars>>

\* mutant: reset() without midi_note_gain.reset(0.0)
reset_keeps_envelope ==
    /\ pc = "ready"
    /\ phase' = 0
    /\ midi_note_id' = 0
    /\ midi_note_freq' = ResetFreq
    /\ idle_since_reset' = TRUE
    /\ UNCHANGED <<sample_rate, midi_note_gain, param_vars, pc, blocks, local_vars,
                   last_applied, rendered, ticks>>
    /\ UNCHANGED <<noise_vars, osc_vars>>

\* mutant: reset() without `self.midi_note_freq = 1.0`
reset_keeps_freq ==
    /\ pc = "ready"
    /\ phase' = 0
    /\ midi_note_id' = 0
    /\ midi_note_gain' = smoother_reset(midi_note_gain, 0)
    /\ idle_since_reset' = TRUE
    /\ UNCHANGED <<sample_rate, midi_note_freq, param_vars, pc, blocks, local_vars,
                   last_applied, rendered, ticks>>
    /\ UNCHANGED <<noise_vars, osc_vars>>

\* Plugin::reset: between blocks only
reset ==
    /\ pc = "ready"
    /\ phase' = 0
    /\ midi_note_id' = 0
    /\ midi_note_freq' = ResetFreq
    /\ midi_note_gain' = smoother_reset(midi_note_gain, 0)
    /\ idle_since_reset' = TRUE
    /\ UNCHANGED <<sample_rate, param_vars, pc, blocks, local_vars,
                   last_applied, rendered, ticks>>
    /\ UNCHANGED <<noise_vars, osc_vars>>

\* host automation of the gain parameter (between blocks)
set_gain(t) ==
    /\ pc = "ready"
    /\ t # gain.target
    /\ gain' = set_target(gain, GainMs, sample_rate, t)
    /\ UNCHANGED <<sample_rate, phase, note_vars, frequency, use_midi, pc, blocks,
                   local_vars, hist_vars>>
    /\ UNCHANGED <<noise_vars, osc_vars>>

\* host automation of the frequency parameter (between blocks)
set_frequency(t) ==
    /\ pc = "ready"
    /\ t # frequency.target
    /\ frequency' = set_target(frequency, FrequencyMs, sample_rate, t)
    /\ UNCHANGED <<sample_rate, phase, note_vars, gain, use_midi, pc, blocks,
                   local_vars, hist_vars>>
    /\ UNCHANGED <<noise_vars, osc_vars>>

\* the "Use MIDI" parameter is an atomic cell shared with the host; process()
\* reads it once per sample, so a write is modelled between two samples
set_use_midi(b) ==
    /\ pc \in {"ready", "loop"}
    /\ b # use_midi
    /\ use_midi' = b
    /\ UNCHANGED <<sample_rate, phase, note_vars, gain, frequency, pc, blocks,
                   local_vars, hist_vars>>
    /\ UNCHANGED <<noise_vars, osc_vars>>

(***************************************************************************)
(* Tone Engine: process(), one action per step of its sample loop.         *)
(***************************************************************************)
\* entry: `let mut next_event = context.next_event()`, on a buffer of ch channels
process_begin(ch) ==
    /\ pc = "ready"
    /\ blocks < MaxBlocks
    /\ \E e \in next_event_results(sent, 0) :
          /\ next_event' = e
          /\ sent' = IF e.some THEN sent + 1 ELSE sent
    /\ sample_id' = 0
    /\ buffer' = fresh_buffer(ch)
    /\ status' = "Running"
    /\ pc' = "loop"
    /\ UNCHANGED <<sample_rate, phase, note_vars, param_vars, blocks, gain_db, hist_vars>>
    /\ UNCHANGED <<noise_vars, osc_vars>>

\* top of one loop iteration: gain.smoothed.next(), then the use_midi test
sample_begin ==
    /\ pc = "loop"
    /\ sample_id < NumSamples
    /\ gain_db' = next_value(gain)
    /\ gain' = next_state(gain)
    /\ ticks' = [NoTicks EXCEPT !.gain = 1]
    /\ pc' = IF use_midi THEN "midi" ELSE "manual"
    /\ UNCHANGED <<sample_rate, phase, note_vars, frequency, use_midi, blocks, sample_id,
                   next_event, sent, buffer, status, last_applied, rendered,
                   idle_since_reset>>
    /\ UNCHANGED <<noise_vars, osc_vars>>

\* one iteration of `while let Some(event) = next_event`, for the event ev
apply_event(ev) ==
    /\ pc = "midi"
    /\ next_event.some
    /\ event_due(next_event.timing, sample_id)
    /\ LET after == note_state_after(ev, midi_note_id, midi_note_freq,
                                     midi_note_gain, sample_rate) IN
          /\ midi_note_id' = after.id
          /\ midi_note_freq' = after.freq
          /\ midi_note_gain' = after.env
    /\ last_applied' = [kind |-> ev.kind, note |-> ev.note, value |-> ev.value,
                        timing |-> next_event.timing, at |-> sample_id]
    /\ idle_since_reset' = (idle_since_reset /\ ev.kind # "NoteOn")
    /\ \E e \in next_event_results(sent, next_event.timing) :
          /\ next_event' = e
          /\ sent' = IF e.some THEN sent + 1 ELSE sent
    /\ UNCHANGED <<sample_rate, phase, param_vars, pc, blocks, sample_id, gain_db,
                   buffer, status, rendered, ticks>>
    /\ UNCHANGED <<noise_vars, osc_vars>>

\* mutant: calculate_sin and the envelope are evaluated once per channel
render_midi_per_channel ==
    /\ pc = "midi"
    /\ ~next_event.some \/ ~event_due(next_event.timing, sample_id)
    /\ phase' = IF Len(buffer[sample_id + 1]) = 2
                THEN phase_after(phase_after(phase, midi_note_freq, sample_rate),
                                 midi_note_freq, sample_rate)
                ELSE phase_after(phase, midi_note_freq, sample_rate)
    /\ midi_note_gain' = IF Len(buffer[sample_id + 1]) = 2
                         THEN next_state(next_state(midi_note_gain))
                         ELSE next_state(midi_note_gain)
    /\ buffer' = write_channels(buffer, sample_id,
                                tone_sample(phase, next_value(midi_note_gain), gain_db))
    /\ rendered' = Append(rendered, [freq |-> midi_note_freq, midi |-> TRUE])
    /\ ticks' = [ticks EXCEPT !.osc = @ + Len(buffer[sample_id + 1]),
                              !.env = @ + Len(buffer[sample_id + 1])]
    /\ sample_id' = sample_id + 1
    /\ last_applied' = NoPayload
    /\ pc' = "loop"
    /\ UNCHANGED <<sample_rate, midi_note_id, midi_note_freq, param_vars, blocks,
                   next_event, sent, gain_db, status, idle_since_reset>>
    /\ UNCHANGED <<noise_vars, osc_vars>>

\* MIDI branch after the event loop:
\* calculate_sin(midi_note_freq) * midi_note_gain.next(), written to every channel
render_midi ==
    /\ pc = "midi"
    /\ ~next_event.some \/ ~event_due(next_event.timing, sample_id)
    /\ phase' = phase_after(phase, midi_note_freq, sample_rate)
    /\ midi_note_gain' = next_state(midi_note_gain)
    /\ buffer' = write_channels(buffer, sample_id,
                                tone_sample(phase, next_value(midi_note_gain), gain_db))
    /\ rendered' = Append(rendered, [freq |-> midi_note_freq, midi |-> TRUE])
    /\ ticks' = [ticks EXCEPT !.osc = @ + 1, !.env = @ + 1]
    /\ sample_id' = sample_id + 1
    /\ last_applied' = NoPayload
    /\ pc' = "loop"
    /\ UNCHANGED <<sample_rate, midi_note_id, midi_note_freq, param_vars, blocks,
                   next_event, sent, gain_db, status, idle_since_reset>>
    /\ UNCHANGED <<noise_vars, osc_vars>>

\* mutant: the manual branch also advances the note envelope
render_manual_advances_envelope ==
    /\ pc = "manual"
    /\ phase' = phase_after(phase, next_value(frequency), sample_rate)
    /\ frequency' = next_state(frequency)
    /\ midi_note_gain' = next_state(midi_note_gain)
    /\ buffer' = write_channels(buffer, sample_id, tone_sample(phase, EnvOne, gain_db))
    /\ rendered' = Append(rendered, [freq |-> next_value(frequency), midi |-> FALSE])
    /\ ticks' = [ticks EXCEPT !.osc = @ + 1, !.freq = @ + 1]
    /\ sample_id' = sample_id + 1
    /\ pc' = "loop"
    /\ UNCHANGED <<sample_rate, midi_note_id, midi_note_freq, gain, use_midi, blocks,
                   next_event, sent, gain_db, status, last_applied, idle_since_reset>>
    /\ UNCHANGED <<noise_vars, osc_vars>>

\* manual branch: calculate_sin(frequency.smoothed.next()), written to every channel
render_manual ==
    /\ pc = "manual"
    /\ phase' = phase_after(phase, next_value(frequency), sample_rate)
    /\ frequency' = next_state(frequency)
    /\ buffer' = write_channels(buffer, sample_id, tone_sample(phase, EnvOne, gain_db))
    /\ rendered' = Append(rendered, [freq |-> next_value(frequency), midi |-> FALSE])
    /\ ticks' = [ticks EXCEPT !.osc = @ + 1, !.freq = @ + 1]
    /\ sample_id' = sample_id + 1
    /\ pc' = "loop"
    /\ UNCHANGED <<sample_rate, note_vars, gain, use_midi, blocks, next_event, sent,
                   gain_db, status, last_applied, idle_since_reset>>
    /\ UNCHANGED <<noise_vars, osc_vars>>

\* loop exit: ProcessStatus::KeepAlive; the buffer and the context go back to the host
process_return ==
    /\ pc = "loop"
    /\ sample_id = NumSamples
    /\ status' = "KeepAlive"
    /\ blocks' = blocks + 1
    /\ pc' = "ready"
    /\ sample_id' = 0
    /\ next_event' = NoEvent
    /\ gain_db' = 0
    /\ buffer' = <<>>
    /\ last_applied' = NoPayload
    /\ rendered' = <<>>
    /\ ticks' = NoTicks
    /\ UNCHANGED <<sample_rate, phase, note_vars, param_vars, sent, idle_since_reset>>
    /\ UNCHANGED <<noise_vars, osc_vars>>

(***************************************************************************)
(* Noise Engine (src/noise_generator/src/lib.rs).                          *)
(***************************************************************************)
\* (random::<f32>() - 0.5) * 2, in 1/RandOne
noise_map(r) == 2 * r - RandOne

\* one output sample: noise * db_to_gain_fast(gain_db), kept as its factors
noise_sample(r, g) == [noise |-> noise_map(r), gain_db |-> g]

NoiseUnwritten == [writes |-> 0, value |-> noise_sample(0, 0)]

n_fresh_buffer(ch) == [s \in 1..NumSamples |-> [c \in 1..ch |-> NoiseUnwritten]]

n_channels_of(buf) == IF buf = <<>> THEN 0 ELSE Len(buf[1])

\* Plugin::initialize
n_initialize(rate) ==
    /\ n_pc \in {"new", "ready"}
    /\ rate # n_sample_rate
    /\ n_sample_rate' = rate
    /\ n_pc' = "ready"
    /\ UNCHANGED <<n_gain, n_blocks, n_sample_id, n_buffer, n_status>>
    /\ UNCHANGED <<tone_vars, osc_vars>>

\* host automation of the gain parameter (between blocks)
n_set_gain(t) ==
    /\ n_pc = "ready"
    /\ t # n_gain.target
    /\ n_gain' = set_target(n_gain, GainMs, n_sample_rate, t)
    /\ UNCHANGED <<n_sample_rate, n_pc, n_blocks, n_sample_id, n_buffer, n_status>>
    /\ UNCHANGED <<tone_vars, osc_vars>>

\* entry of process() on a buffer of ch channels
n_process_begin(ch) ==
    /\ n_pc = "ready"
    /\ n_blocks < MaxBlocks
    /\ n_buffer' = n_fresh_buffer(ch)
    /\ n_sample_id' = 0
    /\ n_status' = "Running"
    /\ n_pc' = "loop"
    /\ UNCHANGED <<n_sample_rate, n_gain, n_blocks>>
    /\ UNCHANGED <<tone_vars, osc_vars>>

\* one loop iteration: gain.smoothed.next(), then for every channel
\* `*sample = (random::<f32>() - 0.5) * 2 * db_to_gain_fast(gain)`;
\* draws[c] is the value random() returns for channel c
n_render(draws) ==
    /\ n_pc = "loop"
    /\ n_sample_id < NumSamples
    /\ n_gain' = next_state(n_gain)
    /\ n_buffer' = [n_buffer EXCEPT ![n_sample_id + 1] =
            [c \in DOMAIN n_buffer[n_sample_id + 1] |->
                [writes |-> n_buffer[n_sample_id + 1][c].writes + 1,
                 value |-> noise_sample(draws[c], next_value(n_gain))]]]
    /\ n_sample_id' = n_sample_id + 1
    /\ UNCHANGED <<n_sample_rate, n_pc, n_blocks, n_status>>
    /\ UNCHANGED <<tone_vars, osc_vars>>

\* loop exit: ProcessStatus::KeepAlive; the buffer goes back to the host
n_process_return ==
    /\ n_pc = "loop"
    /\ n_sample_id = NumSamples
    /\ n_status' = "KeepAlive"
    /\ n_blocks' = n_blocks + 1
    /\ n_pc' = "ready"
    /\ n_sample_id' = 0
    /\ n_buffer' = <<>>
    /\ UNCHANGED <<n_sample_rate, n_gain>>
    /\ UNCHANGED <<tone_vars, osc_vars>>

\* the steps of process()
process_midi ==
    \/ \E ch \in ChannelCounts : process_begin(ch)
    \/ sample_begin
    \/ \E ev \in Payloads : apply_event(ev)
    \/ render_midi
    \/ process_return

Next ==
    \/ \E rate \in SampleRates : initialize(rate)
    \/ reset
    \/ \E t \in GainTargets : set_gain(t)
    \/ \E t \in FrequencyTargets : set_frequency(t)
    \/ \E b \in BOOLEAN : set_use_midi(b)
    \/ process_midi
    \/ render_manual

Spec == Init /\ [][Next]_vars

\* MIDI mode: the host leaves "Use MIDI" at its default (true) and automates no
\* parameter; the note state machine, the oscillator and the life cycle are as in Spec
NextMidi ==
    \/ \E rate \in SampleRates : initialize(rate)
    \/ reset
    \/ process_midi

SpecMidi == Init /\ [][NextMidi]_vars

\* one stream configuration, both modes: the host switches "Use MIDI" at any
\* sample boundary and sends events, and neither resets nor automates gain or
\* frequency
NextBlock ==
    \/ \E rate \in SampleRates : pc = "new" /\ initialize(rate)
    \/ \E b \in BOOLEAN : set_use_midi(b)
    \/ process_midi
    \/ render_manual

SpecBlock == Init /\ [][NextBlock]_vars

\* one stream configuration, with the gain and the frequency parameter
\* automated before the first block and "Use MIDI" switched between blocks
NextStep ==
    \/ \E rate \in SampleRates : pc = "new" /\ initialize(rate)
    \/ \E t \in GainTargets : blocks = 0 /\ set_gain(t)
    \/ \E t \in FrequencyTargets : blocks = 0 /\ set_frequency(t)
    \/ \E b \in BOOLEAN : pc = "ready" /\ set_use_midi(b)
    \/ process_midi
    \/ render_manual

SpecStep == Init /\ [][NextStep]_vars

\* MIDI mode with a host that may also configure a sample rate of 0
NextZero ==
    \/ \E rate \in HostSampleRates : initialize(rate)
    \/ process_midi

SpecZero == Init /\ [][NextZero]_vars

\* MIDI mode at the sample rates of EnvelopeRates, without reset()
NextEnvelope ==
    \/ \E rate \in EnvelopeRates : initialize(rate)
    \/ process_midi

SpecEnvelope == Init /\ [][NextEnvelope]_vars

\* calculate_sin on its own: any start phase, a constant frequency and rate
OscInit ==
    /\ EngineInit
    /\ osc_start \in StartPhases
    /\ osc_phase = osc_start
    /\ osc_rate \in SampleRates
    /\ osc_freq \in period_frequencies(osc_rate)
    /\ osc_steps = 0

\* one call of calculate_sin(osc_freq)
osc_step ==
    /\ osc_steps < MaxPeriod
    /\ osc_phase' = phase_after(osc_phase, osc_freq, osc_rate)
    /\ osc_steps' = osc_steps + 1
    /\ UNCHANGED <<osc_start, osc_freq, osc_rate>>
    /\ UNCHANGED <<tone_vars, noise_vars>>

OscNext == osc_step

OscSpec == OscInit /\ [][OscNext]_vars

\* the Noise Engine on its own
NoiseNext ==
    \/ \E rate \in SampleRates : n_initialize(rate)
    \/ \E t \in GainTargets : n_set_gain(t)
    \/ \E ch \in ChannelCounts : n_process_begin(ch)
    \/ \E draws \in [1..n_channels_of(n_buffer) -> RandomValues] : n_render(draws)
    \/ n_process_return

NoiseSpec == Init /\ [][NoiseNext]_vars

(***************************************************************************)
(* Claims.                                                                 *)
(*                                                                         *)
(* A step of process() that keeps pc = "midi" is one iteration of the      *)
(* event loop; last_applied' is the event it matched.                      *)
(***************************************************************************)
EventStep == pc = "midi" /\ pc' = "midi"

\* every sample of the running block so far was processed with use_midi true
BlockMidi == pc # "manual" /\ \A i \in DOMAIN rendered : rendered[i].midi

\* C1: NoteOff guard.  Applying NoteOff{n} sets the envelope target to 0 if n
\* is the active note id and leaves id and frequency alone; for any other n it
\* leaves envelope, active note id and active frequency unchanged.
C1_NoteOffGuard ==
    [][(EventStep /\ last_applied'.kind = "NoteOff") =>
          IF last_applied'.note = midi_note_id
          THEN /\ midi_note_gain'.target = 0
               /\ midi_note_id' = midi_note_id
               /\ midi_note_freq' = midi_note_freq
          ELSE UNCHANGED note_vars]_vars

\* C1 witness: a NoteOff for a note that is not the active one has just been
\* applied while another note is sounding, and the envelope still targets it.
C1_Witness ==
    /\ pc = "midi"
    /\ last_applied.kind = "NoteOff"
    /\ last_applied.note \in {60, 64}
    /\ midi_note_id \in {60, 64}
    /\ last_applied.note # midi_note_id
    /\ midi_note_gain.target > 0

\* C2: monophonic steal.  A NoteOn{note, velocity} is applied whatever the
\* state; after it the active note id is note, the active frequency is
\* midi_to_freq(note) and the envelope target is velocity.
C2_NoteOnSteals ==
    [][(EventStep /\ last_applied'.kind = "NoteOn") =>
          /\ midi_note_id' = last_applied'.note
          /\ midi_note_freq' = midi_note_to_freq(last_applied'.note)
          /\ midi_note_gain'.target = last_applied'.value]_vars

\* C2 witness: NoteOn 64 has just stolen the voice from a note whose envelope
\* was open (current value above 0) and which had a different frequency.
C2_Witness ==
    /\ pc = "midi"
    /\ last_applied.kind = "NoteOn"
    /\ last_applied.note = 64
    /\ midi_note_id = 64
    /\ midi_note_freq = midi_note_to_freq(64)
    /\ midi_note_gain.target = last_applied.value
    /\ midi_note_gain.current > 0
    /\ Len(rendered) > 0
    /\ rendered[Len(rendered)].freq = midi_note_to_freq(60)

\* C3: sample-accurate event application.  In a block processed in MIDI mode,
\* an event is matched at the sample index equal to its offset; once sample
\* s - 1 is written no event with an offset below s is still pending (so every
\* in-range event has been applied when the loop ends); and the frequency a
\* sample is computed with is the one left by the events of that sample.
C3_SampleAccurate ==
    BlockMidi =>
        /\ last_applied.kind # "None" => last_applied.at = last_applied.timing
        /\ (pc \in {"loop", "midi"} /\ next_event.some) => next_event.timing >= sample_id
        /\ (pc = "loop" /\ sample_id = NumSamples /\ next_event.some)
               => next_event.timing >= NumSamples
        /\ (pc = "loop" /\ Len(rendered) > 0)
               => rendered[Len(rendered)].freq = midi_note_freq

\* C3 witness: NoteOn 60 at offset 0 and NoteOn 64 at the last offset of the
\* block: the samples before it were computed with note 60's frequency, the
\* last one with note 64's.
C3_Witness ==
    /\ pc = "loop"
    /\ sample_id = NumSamples
    /\ BlockMidi
    /\ Len(rendered) = NumSamples
    /\ \A i \in 1..(NumSamples - 1) : rendered[i].freq = midi_note_to_freq(60)
    /\ rendered[NumSamples].freq = midi_note_to_freq(64)

\* C4: events are drained in manual mode.  An event whose offset falls on a
\* sample processed with use_midi false never changes the note state at a
\* later sample.
C4_DrainedInManualMode ==
    [][(/\ EventStep
        /\ last_applied'.timing < sample_id
        /\ ~rendered[last_applied'.timing + 1].midi) => UNCHANGED note_vars]_vars

\* C5: PolyPressure guard.  Applying PolyPressure{n, pressure} sets the
\* envelope target to pressure if n is the active note id and leaves id and
\* frequency alone; for any other n, and for any event kind other than NoteOn,
\* NoteOff and PolyPressure, the note state is unchanged.
C5_PolyPressureGuard ==
    [][EventStep =>
          /\ last_applied'.kind = "PolyPressure" =>
                IF last_applied'.note = midi_note_id
                THEN /\ midi_note_gain'.target = last_applied'.value
                     /\ midi_note_id' = midi_note_id
                     /\ midi_note_freq' = midi_note_freq
                ELSE UNCHANGED note_vars
          /\ last_applied'.kind \notin {"NoteOn", "NoteOff", "PolyPressure"} =>
                UNCHANGED note_vars]_vars

\* C5 witness: a PolyPressure for the sounding note 60 has just been applied
\* and the envelope, opened by the NoteOn velocity, now targets the pressure.
C5_Witness ==
    /\ pc = "midi"
    /\ last_applied.kind = "PolyPressure"
    /\ last_applied.note = 60
    /\ midi_note_id = 60
    /\ midi_note_gain.target = last_applied.value
    /\ midi_note_gain.current > last_applied.value

\* C6: Noise Engine channel fan-out.  Every written sample index holds the
\* identical value in every output channel.
C6_NoiseChannelsEqual ==
    \A s \in DOMAIN n_buffer : \A c \in DOMAIN n_buffer[s] :
        n_buffer[s][c].value = n_buffer[s][1].value

\* C7: Tone Engine block output.  While process() runs, the sample indices
\* already processed are written exactly once in every channel, with the
\* identical value in all channels, and the others not at all; so at the end
\* of the loop all N indices of every channel are written exactly once; and
\* every finished process() call returned KeepAlive.
C7_BlockOutput ==
    /\ pc \in {"loop", "midi", "manual"} =>
          /\ Len(buffer) = NumSamples
          /\ \A s \in 1..NumSamples : \A c \in DOMAIN buffer[s] :
                /\ buffer[s][c].writes = (IF s <= sample_id THEN 1 ELSE 0)
                /\ buffer[s][c].value = buffer[s][1].value
    /\ (pc = "ready" /\ blocks > 0) => status = "KeepAlive"
    /\ pc \in {"loop", "midi", "manual"} => status = "Running"

\* C7 witness: the loop of a stereo block has ended after samples processed
\* in MIDI mode and in manual mode, in a call that follows a returned one.
C7_Witness ==
    /\ pc = "loop"
    /\ sample_id = NumSamples
    /\ blocks > 0
    /\ Len(buffer[1]) = 2
    /\ \E i, j \in DOMAIN rendered : rendered[i].midi /\ ~rendered[j].midi
    /\ buffer[1][1].value # buffer[NumSamples][2].value

\* C8: oscillator phase invariant.  0 <= phase < 1 in every reachable state.
C8_PhaseInRange == 0 <= phase /\ phase < PhaseOne

\* C9: no active note after reset.  After reset() and until a NoteOn is
\* applied the envelope target stays 0, whatever NoteOff or PolyPressure
\* events arrive.
C9_IdleAfterReset == idle_since_reset => midi_note_gain.target = 0

\* C10: reset() postcondition.  From every state, reset() yields phase 0,
\* active note id 0, envelope current = target = 0 with no interpolation left
\* in flight, and leaves the stored sample rate unchanged.
C10_ResetPost ==
    [][reset =>
          /\ phase' = 0
          /\ midi_note_id' = 0
          /\ midi_note_gain'.current = 0
          /\ midi_note_gain'.target = 0
          /\ midi_note_gain'.steps_left = 0
          /\ next_value(midi_note_gain') = 0
          /\ sample_rate' = sample_rate]_vars

\* C10 witness: reset() has acted on an engine that was initialized, had
\* processed a block and had received events.
C10_Witness ==
    /\ pc = "ready"
    /\ idle_since_reset
    /\ blocks > 0
    /\ sent > 0
    /\ sample_rate # DefaultSampleRate
    /\ phase = 0
    /\ midi_note_id = 0
    /\ midi_note_gain = SmootherNew(0)

\* C11: zero sample rate guard.  With a stored sample rate of 0 an oscillator
\* step uses a phase delta of 0: the phase is left unchanged, stays in [0,1),
\* and no infinite or NaN phase is stored.
C11_ZeroRateGuard ==
    [][(sample_rate = 0 /\ pc \in {"midi", "manual"} /\ pc' = "loop") =>
          /\ phase' = phase
          /\ phase' # Infinity]_vars

\* C12: phase persistence.  Only a processed sample and reset() change the
\* oscillator phase: the entry and the exit of process() leave it alone, so a
\* block starts from the phase the previous block left; and initialize()
\* changes the stored sample rate only, leaving phase, active note id, active
\* frequency and envelope unchanged.
C12_PhasePersists ==
    [][/\ (~(pc \in {"midi", "manual"} /\ pc' = "loop") /\ ~reset) => phase' = phase
       /\ (pc = "ready" /\ pc' = "loop") => phase' = phase
       /\ (pc = "loop" /\ pc' = "ready") => phase' = phase
       /\ sample_rate' # sample_rate => UNCHANGED <<phase, note_vars>>]_vars

\* C12 witness: the second block starts, after initialize() changed the rate
\* from 250 to 400 Hz, from the phase the first block (all its samples at
\* 1 Hz and 250 Hz) left behind.
C12_Witness ==
    /\ pc = "loop"
    /\ sample_id = 0
    /\ blocks = 1
    /\ sample_rate = 400
    /\ phase = NumSamples * phase_delta(ResetFreq, 250)
    /\ phase > 0

\* ceil(d * r) for a duration of ms milliseconds at rate Hz
ceil_samples(ms, rate) == (rate * ms + 999) \div 1000

\* the envelope value written by the sample just processed
envelope_out == buffer'[sample_id + 1][1].value.envelope

\* C13: envelope convergence.  In MIDI mode an applied event re-arms the
\* envelope from its current value, without a jump, for at most ceil(d*r)
\* samples; each processed sample then returns a value between the current
\* value and the target b and counts one sample off; the last counted sample
\* returns b exactly, and every later sample returns b and changes nothing.
C13_EnvelopeConverges ==
    [][/\ EventStep =>
             /\ midi_note_gain'.current = midi_note_gain.current
             /\ midi_note_gain' # midi_note_gain =>
                    /\ midi_note_gain'.target = last_applied'.value
                    /\ midi_note_gain'.steps_left <= ceil_samples(EnvelopeMs, sample_rate)
       /\ (pc = "midi" /\ pc' = "loop") =>
             /\ IF midi_note_gain.target >= midi_note_gain.current
                THEN /\ midi_note_gain.current <= envelope_out
                     /\ envelope_out <= midi_note_gain.target
                ELSE /\ midi_note_gain.target <= envelope_out
                     /\ envelope_out <= midi_note_gain.current
             /\ midi_note_gain'.current = envelope_out
             /\ midi_note_gain'.target = midi_note_gain.target
             /\ midi_note_gain.steps_left > 1 =>
                    midi_note_gain'.steps_left = midi_note_gain.steps_left - 1
             /\ midi_note_gain.steps_left <= 1 =>
                    /\ envelope_out = midi_note_gain.target
                    /\ midi_note_gain'.steps_left = 0
             /\ midi_note_gain.steps_left = 0 => midi_note_gain' = midi_note_gain]_vars

\* C13 witness: at 500 Hz a matching NoteOff for note 60 found the envelope
\* open; the block's last two samples are the end of the ramp, a value above
\* 0 and then exactly 0, and the envelope is converged at 0.
C13_Witness ==
    /\ pc = "loop"
    /\ sample_id = NumSamples
    /\ sample_rate = 500
    /\ midi_note_id = 60
    /\ buffer[NumSamples - 1][1].value.envelope > 0
    /\ buffer[NumSamples][1].value.envelope = 0
    /\ midi_note_gain.current = 0
    /\ midi_note_gain.target = 0
    /\ midi_note_gain.steps_left = 0

\* C14: oscillator periodicity.  For a constant frequency f and sample rate r
\* with 0 < f < r and r/f an integer, from any start phase in [0,1), the phase
\* after exactly r/f oscillator steps is the start phase again.
C14_Periodic ==
    (/\ 0 < osc_freq
     /\ osc_freq < FreqScale * osc_rate
     /\ (FreqScale * osc_rate) % osc_freq = 0
     /\ osc_steps * osc_freq = FreqScale * osc_rate) => osc_phase = osc_start

\* C14 witness: a period of 5 samples has been run from the last phase below
\* 1.0, so the phase wrapped on the way, and it is back at its start.
C14_Witness ==
    /\ osc_steps = 5
    /\ osc_steps * osc_freq = FreqScale * osc_rate
    /\ osc_start = PhaseOne - 1
    /\ osc_phase = osc_start

\* C15: out-of-range event offsets.  An event whose offset is >= N is never
\* applied: every applied event has an offset below N; while such an event
\* is pending, a MIDI sample is still rendered and leaves active note id,
\* frequency and envelope target alone; and process() still returns
\* KeepAlive with all N samples of every channel written, dropping the event
\* without touching the note state.
C15_OutOfRangeIgnored ==
    [][/\ EventStep => last_applied'.timing < NumSamples
       /\ (pc = "midi" /\ next_event.some /\ next_event.timing >= NumSamples) =>
             /\ pc' = "loop"
             /\ sample_id' = sample_id + 1
             /\ buffer'[sample_id + 1][1].writes = 1
             /\ next_event' = next_event
             /\ midi_note_id' = midi_note_id
             /\ midi_note_freq' = midi_note_freq
             /\ midi_note_gain'.target = midi_note_gain.target
       /\ (pc = "loop" /\ pc' = "ready" /\ next_event.some
              /\ next_event.timing >= NumSamples) =>
             /\ \A i \in 1..NumSamples : \A c \in DOMAIN buffer[i] : buffer[i][c].writes = 1
             /\ status' = "KeepAlive"
             /\ next_event' = NoEvent
             /\ UNCHANGED note_vars]_vars

\* C15 witness: the loop of a MIDI block has ended with the only event sent
\* so far, one of offset N, still pending; all N samples are written and the
\* note state is the initial one.
C15_Witness ==
    /\ pc = "loop"
    /\ sample_id = NumSamples
    /\ BlockMidi
    /\ Len(rendered) = NumSamples
    /\ next_event = SomeEvent(NumSamples)
    /\ sent = 1
    /\ \A i \in 1..NumSamples : buffer[i][1].writes = 1
    /\ midi_note_id = 0
    /\ midi_note_freq = ResetFreq
    /\ midi_note_gain = SmootherNew(0)

\* C16: manual mode leaves the note state alone.  Processing a sample with
\* use_midi false leaves active note id, active frequency and the envelope
\* (current value and target) unchanged whatever event is pending; the gain
\* smoother, the frequency smoother and the oscillator phase each advance.
C16_ManualLeavesNoteState ==
    [][/\ (pc = "loop" /\ pc' = "manual") =>
             /\ UNCHANGED <<note_vars, phase, frequency, sample_rate, use_midi>>
             /\ gain' = next_state(gain)
       /\ pc = "manual" =>
             /\ pc' = "loop"
             /\ UNCHANGED <<note_vars, gain, sample_rate, use_midi>>
             /\ frequency' = next_state(frequency)
             /\ phase' = phase_after(phase, next_value(frequency), sample_rate)]_vars

\* C16 witness: a sample has just been processed in manual mode while note 60
\* was sounding with its envelope still on its way to the velocity, and while
\* an event whose offset has passed was pending.
C16_Witness ==
    /\ pc = "loop"
    /\ sample_id > 0
    /\ Len(rendered) = sample_id
    /\ ~rendered[sample_id].midi
    /\ next_event.some
    /\ next_event.timing < sample_id
    /\ midi_note_id = 60
    /\ midi_note_gain.target > 0
    /\ midi_note_gain.steps_left > 0

\* the value written to every channel by the sample just processed
sample_out(v) == \A c \in DOMAIN buffer'[sample_id + 1] : buffer'[sample_id + 1][c].value = v

\* C17: per-sample stepping.  Every sample advances the gain smoother exactly
\* once (at the top of the iteration, never again in the iteration), the
\* oscillator exactly once, with the sine taken from the phase before the
\* advance, and exactly one of the envelope smoother (use_midi true) and the
\* frequency smoother (use_midi false) exactly once, whatever the number of
\* channels; applying an event advances none of them.
C17_PerSampleStepping ==
    [][/\ (pc = "loop" /\ pc' \in {"midi", "manual"}) =>
             /\ gain' = next_state(gain)
             /\ gain_db' = next_value(gain)
             /\ ticks' = [NoTicks EXCEPT !.gain = 1]
             /\ UNCHANGED <<phase, midi_note_gain, frequency>>
       /\ EventStep =>
             /\ UNCHANGED <<phase, gain, frequency, ticks>>
             /\ midi_note_gain'.current = midi_note_gain.current
       /\ (pc = "midi" /\ pc' = "loop") =>
             /\ phase' = phase_after(phase, midi_note_freq, sample_rate)
             /\ midi_note_gain' = next_state(midi_note_gain)
             /\ UNCHANGED <<gain, frequency>>
             /\ sample_out(tone_sample(phase, next_value(midi_note_gain), gain_db))
             /\ ticks' = [gain |-> 1, osc |-> 1, env |-> 1, freq |-> 0]
       /\ (pc = "manual" /\ pc' = "loop") =>
             /\ phase' = phase_after(phase, next_value(frequency), sample_rate)
             /\ frequency' = next_state(frequency)
             /\ UNCHANGED <<gain, midi_note_gain>>
             /\ sample_out(tone_sample(phase, EnvOne, gain_db))
             /\ ticks' = [gain |-> 1, osc |-> 1, env |-> 0, freq |-> 1]]_vars

\* C17 witness: the first sample of a stereo block was processed in MIDI mode
\* after two events were applied at it and after the gain was automated to
\* 0 dB: its sine is taken from phase 0, the gain, the oscillator and the
\* envelope were each stepped once, the frequency smoother not at all.
C17_Witness ==
    /\ pc = "loop"
    /\ sample_id = 1
    /\ blocks = 0
    /\ sent = 2
    /\ ~next_event.some
    /\ Len(buffer[1]) = 2
    /\ rendered[1].midi
    /\ buffer[1][2].value.sine_phase = 0
    /\ buffer[1][2].value.gain_db = 0
    /\ buffer[1][2].value.envelope > 0
    /\ phase > 0
    /\ frequency.steps_left > 0
    /\ ticks = [gain |-> 1, osc |-> 1, env |-> 1, freq |-> 0]

\* C18: note id / frequency consistency.  In every reachable state either
\* (id, frequency) = (0, 1.0), which is the case as long as no NoteOn was
\* applied since construction or the last reset, or frequency =
\* midi_to_freq(id); the pair is written only as a pair: by a NoteOn, to
\* (note, midi_to_freq(note)), and by reset(), to (0, 1.0); NoteOff,
\* PolyPressure and the ignored kinds never change the id or the frequency.
C18_IdFreqConsistent ==
    /\ [](/\ \/ (midi_note_id = 0 /\ midi_note_freq = ResetFreq)
              \/ midi_note_freq = midi_note_to_freq(midi_note_id)
          /\ (idle_since_reset \/ sent = 0) =>
                (midi_note_id = 0 /\ midi_note_freq = ResetFreq))
    /\ [][/\ (midi_note_id' # midi_note_id \/ midi_note_freq' # midi_note_freq) =>
                 \/ /\ EventStep
                    /\ last_applied'.kind = "NoteOn"
                    /\ midi_note_id' = last_applied'.note
                    /\ midi_note_freq' = midi_note_to_freq(last_applied'.note)
                 \/ /\ pc = "ready"
                    /\ pc' = "ready"
                    /\ idle_since_reset'
                    /\ midi_note_id' = 0
                    /\ midi_note_freq' = ResetFreq
          /\ (EventStep /\ last_applied'.kind # "NoteOn") =>
                 UNCHANGED <<midi_note_id, midi_note_freq>>]_vars

\* C18 witness: NoteOn 64 was applied and, in a later block, a NoteOff for
\* note 64 has just closed its open envelope: id and frequency are still
\* those of note 64.
C18_Witness ==
    /\ pc = "midi"
    /\ blocks > 0
    /\ sample_id = 0
    /\ ~idle_since_reset
    /\ last_applied.kind = "NoteOff"
    /\ last_applied.note = 64
    /\ midi_note_id = 64
    /\ midi_note_freq = midi_note_to_freq(64)
    /\ midi_note_gain.target = 0
    /\ midi_note_gain.current > 0

====
